---- MODULE Spec2Model ----
(***************************************************************************)
(* Model of src/src/brave.py: the two Brave Search tools,                   *)
(* brave_web_search and brave_local_search, and the gateway _request they   *)
(* share.  One tool invocation is a coroutine; its only suspension points   *)
(* are the awaits on _request, so each action below runs the code from one  *)
(* await to the next (or to the return).                                    *)
(***************************************************************************)
EXTENDS Integers, Sequences, FiniteSets, TLC

(***************************************************************************)
(* Python / JSON values.  A value carries its type so that None, strings,   *)
(* numbers, lists and dicts can sit in the same field.                      *)
(***************************************************************************)
None == [kind |-> "None"]
Str(s) == [kind |-> "str", v |-> s]
Num(n) == [kind |-> "int", v |-> n]
List(s) == [kind |-> "list", v |-> s]
Dict(d) == [kind |-> "dict", v |-> d]
EmptyDict == Dict(<<>>)
EmptyList == List(<<>>)

\* Python truthiness: None, "", 0, [] and {} are falsy.
Truthy(x) ==
    CASE x.kind = "None" -> FALSE
      [] x.kind = "str"  -> x.v # ""
      [] x.kind = "int"  -> x.v # 0
      [] x.kind = "list" -> Len(x.v) # 0
      [] x.kind = "dict" -> DOMAIN x.v # {}

\* dict.get(key, default)
Get(d, key, default) == IF key \in DOMAIN d.v THEN d.v[key] ELSE default

\* x or y
Or(x, y) == IF Truthy(x) THEN x ELSE y

Min(a, b) == IF a < b THEN a ELSE b
Max(a, b) == IF a > b THEN a ELSE b

\* [f(x) for x in s]
Map(f(_), s) == [i \in 1..Len(s) |-> f(s[i])]

\* sep.join(parts), parts a sequence of plain strings
RECURSIVE Join(_, _)
Join(sep, parts) ==
    IF Len(parts) = 0 THEN ""
    ELSE IF Len(parts) = 1 THEN parts[1]
    ELSE parts[1] \o sep \o Join(sep, Tail(parts))

SeqsUpTo(S, n) == UNION {[1..k -> S] : k \in 0..n}

(***************************************************************************)
(* Bounds of the model.                                                     *)
(***************************************************************************)
\* count and offset arguments range this far outside the clamping intervals
Slack == 1
\* longest web.results list the provider returns
MaxHits == 2
\* longest locations.results list the provider returns
MaxLocations == 2
\* longest /local/pois results list the provider returns
MaxPois == 3

(***************************************************************************)
(* Response model (BraveResult) and the gateway.                            *)
(***************************************************************************)
BraveResult(success, data, error) ==
    [success |-> success, data |-> data, error |-> error]

ConfigError ==
    BraveResult(FALSE, None, Str("BRAVE_API_KEY environment variable not set"))

\* str(e) of the exceptions httpx / raise_for_status / response.json() raise
ErrorStrings == {"timed out", "Client error '429 Too Many Requests'",
                 "Expecting value: line 1 column 1 (char 0)"}

\* (mutant) the except branch drops the message
GatewayOutcomesNoMessage(payloads) ==
    {BraveResult(TRUE, p, None) : p \in payloads}
    \cup {BraveResult(FALSE, None, None)}

\* The outcomes of the try block of _request for a provider that answers
\* with one of `payloads` or fails.
GatewayOutcomes(payloads) ==
    {BraveResult(TRUE, p, None) : p \in payloads}
    \cup {BraveResult(FALSE, None, Str(e)) : e \in ErrorStrings}

(***************************************************************************)
(* Path construction.                                                       *)
(***************************************************************************)
\* urllib.parse.quote(c, safe=""): unreserved characters pass, every other
\* character is percent-encoded.  Queries are sequences of characters.
AlwaysSafe == {"a", "z", "A", "0", "9", "_", ".", "-", "~"}
QuoteChar(c) ==
    IF c \in AlwaysSafe THEN c
    ELSE CASE c = " " -> "%20"
           [] c = "&" -> "%26"
           [] c = "=" -> "%3D"
           [] c = "/" -> "%2F"
           [] c = "?" -> "%3F"

RECURSIVE quote(_)
quote(query) ==
    IF Len(query) = 0 THEN "" ELSE QuoteChar(Head(query)) \o quote(Tail(query))

\* (mutant) the lower bound forgotten
ClampCountLow(count) == Min(count, 20)
ClampCount(count) == Max(1, Min(count, 20))

ClampOffset(offset) == Max(0, Min(offset, 9))

WebSearchPath(query, count, offset) ==
    "/web/search?q=" \o quote(query) \o "&count=" \o ToString(count)
        \o "&offset=" \o ToString(offset)

LocationsPath(query, count) ==
    "/web/search?q=" \o quote(query)
        \o "&search_lang=en&result_filter=locations&count=" \o ToString(count)

PoisPath(ids) == "/local/pois?" \o ids
DescriptionsPath(ids) == "/local/descriptions?" \o ids

(***************************************************************************)
(* Result normalisation.                                                    *)
(***************************************************************************)
WebHit(r) ==
    Dict([title       |-> Get(r, "title", Str("")),
          description |-> Get(r, "description", Str("")),
          url         |-> Get(r, "url", Str(""))])

\* (mutant) an empty result list reported as a failure
WebSearchResultNoEmpty(result) ==
    IF result.success
    THEN LET web_results ==
                 Get(Get(result.data, "web", EmptyDict), "results", EmptyList).v
         IN  IF Len(web_results) = 0
             THEN BraveResult(FALSE, None, Str("no results"))
             ELSE [result EXCEPT !.data = List(Map(WebHit, web_results))]
    ELSE result

\* brave_web_search after its await: shape the gateway result.
WebSearchResult(result) ==
    IF result.success
    THEN LET web_results ==
                 Get(Get(result.data, "web", EmptyDict), "results", EmptyList).v
         IN  [result EXCEPT !.data = List(Map(WebHit, web_results))]
    ELSE result

\* (mutant) the business keys null-filled instead of absent
FallbackRecordNullFilled(r) ==
    Dict([name        |-> r.v["title"],
          address     |-> Str("N/A"),
          phone       |-> None,
          rating      |-> None,
          description |-> r.v["description"]])

FallbackRecord(r) ==
    Dict([name        |-> r.v["title"],
          address     |-> Str("N/A"),
          description |-> r.v["description"]])

\* brave_local_search after its fallback call of brave_web_search.
FallbackResult(web_result) ==
    IF web_result.success
    THEN [web_result EXCEPT !.data = List(Map(FallbackRecord, web_result.data.v))]
    ELSE web_result

HasTruthyId(loc) == Truthy(Get(loc, "id", None))
IdOf(loc) == Get(loc, "id", None)

RECURSIVE Dedup(_)
Dedup(s) ==
    IF Len(s) = 0 THEN <<>>
    ELSE LET front == Dedup(SubSeq(s, 1, Len(s) - 1))
             last == s[Len(s)]
         IN  IF \E i \in 1..Len(front) : front[i] = last
             THEN front ELSE Append(front, last)

\* (mutant) duplicate ids dropped as well
LocationIdsDeduped(data) ==
    LET locations ==
            Get(Get(data, "locations", EmptyDict), "results", EmptyList).v
    IN  Dedup(Map(IdOf, SelectSeq(locations, HasTruthyId)))

\* location_ids = [loc.get("id") for loc in locations if loc.get("id")]
LocationIds(data) ==
    LET locations ==
            Get(Get(data, "locations", EmptyDict), "results", EmptyList).v
    IN  Map(IdOf, SelectSeq(locations, HasTruthyId))

IdParam(id_) == "ids=" \o id_.v

\* ids_param = "&".join(f"ids={id_}" for id_ in location_ids if id_)
IdsParam(ids) == Join("&", Map(IdParam, SelectSeq(ids, Truthy)))

StrOf(part) == part.v

_format_address(address) ==
    IF ~Truthy(address) THEN Str("N/A")
    ELSE LET parts == <<Get(address, "streetAddress", Str("")),
                        Get(address, "addressLocality", Str("")),
                        Get(address, "addressRegion", Str("")),
                        Get(address, "postalCode", Str(""))>>
             formatted == Join(", ", Map(StrOf, SelectSeq(parts, Truthy)))
         IN  Or(Str(formatted), Str("N/A"))

\* (mutant) the map read with a fixed key instead of the POI's id
DescriptionOfWrongKey(descriptions_map, poi_id) ==
    Get(descriptions_map, "id", None)

\* descriptions_map.get(poi_id)
DescriptionOf(descriptions_map, poi_id) ==
    IF poi_id.kind = "str" THEN Get(descriptions_map, poi_id.v, None) ELSE None

\* One entry of `results` (the body of the for loop).
FormatPoi(poi, descriptions_map) ==
    LET poi_id == Get(poi, "id", Str(""))
        rating_info == Or(Get(poi, "rating", EmptyDict), EmptyDict)
        hours == Join(", ", Map(StrOf, Get(poi, "openingHours", EmptyList).v))
    IN  Dict([name         |-> Get(poi, "name", Str("Unknown")),
              address      |-> _format_address(Get(poi, "address", None)),
              phone        |-> Get(poi, "phone", None),
              rating       |-> Get(rating_info, "ratingValue", None),
              rating_count |-> Get(rating_info, "ratingCount", Num(0)),
              price_range  |-> Get(poi, "priceRange", None),
              hours        |-> Or(Str(hours), None),
              description  |-> DescriptionOf(descriptions_map, poi_id)])

\* descriptions_map after the /local/descriptions call
DescriptionsMap(desc_result) ==
    IF desc_result.success
    THEN Get(desc_result.data, "descriptions", EmptyDict)
    ELSE EmptyDict

\* (mutant) a failed descriptions call fails the whole search
LocalResultStrict(pois, desc_result) ==
    IF desc_result.success
    THEN LET Format(poi) == FormatPoi(poi, DescriptionsMap(desc_result))
         IN  BraveResult(TRUE,
                         List(Map(Format, Get(pois.data, "results", EmptyList).v)),
                         None)
    ELSE desc_result

\* brave_local_search after its last await: build the business records.
LocalResult(pois, desc_result) ==
    LET descriptions_map == DescriptionsMap(desc_result)
        Format(poi) == FormatPoi(poi, descriptions_map)
    IN  BraveResult(TRUE,
                    List(Map(Format, Get(pois.data, "results", EmptyList).v)),
                    None)

(***************************************************************************)
(* The provider: the JSON bodies it may answer with.  Optional keys may be  *)
(* absent or empty; nullable fields may be null.                            *)
(***************************************************************************)
Hits ==
    {Dict([title |-> Str("T1"), description |-> Str("D1"), url |-> Str("U1")]),
     Dict([title |-> Str("T2"), url |-> Str("U2")]),
     EmptyDict}

WebPayloads ==
    {EmptyDict, Dict([web |-> EmptyDict])}
    \cup {Dict([web |-> Dict([results |-> List(h)])]) : h \in SeqsUpTo(Hits, MaxHits)}

Locations ==
    {Dict([id |-> Str("p1")]), Dict([id |-> Str("p2")]),
     Dict([id |-> Str("")]), EmptyDict}

LocationsPayloads ==
    {EmptyDict, Dict([locations |-> EmptyDict])}
    \cup {Dict([locations |-> Dict([results |-> List(l)])]) :
              l \in SeqsUpTo(Locations, MaxLocations)}

Pois ==
    {Dict([id           |-> Str("p1"),
           name         |-> Str("Joe's Pizza"),
           address      |-> Dict([streetAddress   |-> Str(""),
                                  addressLocality |-> Str("Springfield"),
                                  addressRegion   |-> Str(""),
                                  postalCode      |-> Str("00000")]),
           phone        |-> Str("555-0100"),
           rating       |-> Dict([ratingValue |-> Num(4), ratingCount |-> Num(120)]),
           priceRange   |-> Str("$$"),
           openingHours |-> List(<<Str("Mo-Fr 09:00-17:00"), Str("Sa 10:00-14:00")>>)]),
     Dict([id           |-> Str("p2"),
           name         |-> Str("Luigi's"),
           address      |-> Dict([streetAddress |-> Str(""), postalCode |-> Str("")]),
           rating       |-> None,
           openingHours |-> EmptyList]),
     EmptyDict}

PoisPayloads ==
    {EmptyDict} \cup {Dict([results |-> List(p)]) : p \in SeqsUpTo(Pois, MaxPois)}

DescriptionsPayloads ==
    {EmptyDict}
    \cup {Dict([descriptions |-> Dict([i \in S |-> Str("about " \o i)])]) :
              S \in SUBSET {"p1", "p2"}}

Queries == {<<"a">>, <<"a", " ", "&", "z", "=">>}
\* count and offset arguments of brave_web_search: every integer from
\* below the lower clamp bound to above the upper one
Counts == (0 - Slack)..(20 + Slack)
Offsets == (0 - Slack)..(9 + Slack)
\* count arguments of brave_local_search: the default and the integers
\* around both clamp bounds
LocalCounts == ((0 - Slack)..1) \cup {5} \cup (20..(20 + Slack))

(***************************************************************************)
(* State.                                                                   *)
(***************************************************************************)
VARIABLES
    BRAVE_API_KEY,  \* module-level credential, read once at import
    pc,             \* where the current invocation is suspended
    tool,           \* the tool invoked
    query,          \* arguments of the invocation, as passed
    count,
    offset,
    calls,          \* HTTP requests issued by this invocation, in order:
                    \* [path, response], response = None while in flight
    location_ids,   \* local variables of brave_local_search
    ids_param,
    pois_result,
    result          \* the BraveResult returned, None until the tool returns

vars == <<BRAVE_API_KEY, pc, tool, query, count, offset, calls,
          location_ids, ids_param, pois_result, result>>

args == <<tool, query, count, offset>>
locals == <<location_ids, ids_param, pois_result>>

Init ==
    /\ BRAVE_API_KEY \in {"", "BSA-token"}
    /\ pc = "idle"
    /\ tool = "none"
    /\ query = <<>>
    /\ count = 0
    /\ offset = 0
    /\ calls = <<>>
    /\ location_ids = <<>>
    /\ ids_param = ""
    /\ pois_result = None
    /\ result = None

\* _request up to its await: without a credential it returns at once,
\* otherwise the GET for `path` goes out.
\* (mutant) the credential check left out
KeyCheckSkipped == FALSE
KeyMissing == BRAVE_API_KEY = ""
\* (mutant) the GET sent a second time
IssueTwice(log, path) ==
    Append(Append(log, [path |-> path, response |-> BraveResult(FALSE, None, Str("timed out"))]),
           [path |-> path, response |-> None])
Issue(log, path) == Append(log, [path |-> path, response |-> None])
\* the await of client.get returns (or raises): the request in flight completes
Complete(log, r) == [log EXCEPT ![Len(log)].response = r]

\* The tool returns `r`.
Return(r) ==
    /\ result' = r
    /\ pc' = "done"

(***************************************************************************)
(* brave_web_search                                                         *)
(***************************************************************************)
brave_web_search ==
    /\ pc = "idle"
    /\ \E q \in Queries, c \in Counts, o \in Offsets :
        /\ tool' = "brave_web_search"
        /\ query' = q
        /\ count' = c
        /\ offset' = o
        /\ IF KeyMissing
           THEN /\ Return(WebSearchResult(ConfigError))
                /\ UNCHANGED calls
           ELSE /\ calls' = Issue(calls, WebSearchPath(q, ClampCount(c), ClampOffset(o)))
                /\ pc' = "web_search"
                /\ UNCHANGED result
    /\ UNCHANGED <<BRAVE_API_KEY, locals>>

WebSearchResponse ==
    /\ pc = "web_search"
    /\ \E r \in GatewayOutcomes(WebPayloads) :
        /\ calls' = Complete(calls, r)
        /\ Return(WebSearchResult(r))
    /\ UNCHANGED <<BRAVE_API_KEY, args, locals>>

(***************************************************************************)
(* brave_local_search                                                       *)
(***************************************************************************)
brave_local_search ==
    /\ pc = "idle"
    /\ \E q \in Queries, c \in LocalCounts :
        /\ tool' = "brave_local_search"
        /\ query' = q
        /\ count' = c
        /\ IF KeyMissing
           THEN /\ Return(ConfigError)
                /\ UNCHANGED calls
           ELSE /\ calls' = Issue(calls, LocationsPath(q, ClampCount(c)))
                /\ pc' = "locations"
                /\ UNCHANGED result
    /\ UNCHANGED <<BRAVE_API_KEY, offset, locals>>

\* The count brave_local_search holds after line 157, and the path of the
\* web search it falls back to: brave_web_search(query, count), offset 0.
FallbackPath ==
    WebSearchPath(query, ClampCount(ClampCount(count)), ClampOffset(0))

\* The locations request completes: lines 163-181.
LocationsResponse ==
    /\ pc = "locations"
    /\ \E r \in GatewayOutcomes(LocationsPayloads) :
        LET log == Complete(calls, r)
            ids == IF r.success THEN LocationIds(r.data) ELSE <<>>
        IN  IF ~r.success
            THEN /\ calls' = log
                 /\ Return(r)
                 /\ UNCHANGED locals
            ELSE IF Len(ids) = 0
            THEN /\ location_ids' = ids
                 /\ UNCHANGED <<ids_param, pois_result>>
                 /\ IF KeyMissing
                    THEN /\ calls' = log
                         /\ Return(FallbackResult(WebSearchResult(ConfigError)))
                    ELSE /\ calls' = Issue(log, FallbackPath)
                         /\ pc' = "fallback"
                         /\ UNCHANGED result
            ELSE /\ location_ids' = ids
                 /\ ids_param' = IdsParam(ids)
                 /\ UNCHANGED pois_result
                 /\ IF KeyMissing
                    THEN /\ calls' = log
                         /\ Return(ConfigError)
                    ELSE /\ calls' = Issue(log, PoisPath(IdsParam(ids)))
                         /\ pc' = "pois"
                         /\ UNCHANGED result
    /\ UNCHANGED <<BRAVE_API_KEY, args>>

\* The fallback web search completes: lines 171-177.
FallbackResponse ==
    /\ pc = "fallback"
    /\ \E r \in GatewayOutcomes(WebPayloads) :
        /\ calls' = Complete(calls, r)
        /\ Return(FallbackResult(WebSearchResult(r)))
    /\ UNCHANGED <<BRAVE_API_KEY, args, locals>>

\* (mutant) a failed /local/pois call degrades instead of failing fast
PoisResponseDegraded ==
    /\ pc = "pois"
    /\ \E r \in GatewayOutcomes(PoisPayloads) :
        /\ pois_result' = IF r.success THEN r ELSE BraveResult(TRUE, EmptyDict, None)
        /\ calls' = Issue(Complete(calls, r), DescriptionsPath(ids_param))
        /\ pc' = "descriptions"
        /\ UNCHANGED result
    /\ UNCHANGED <<BRAVE_API_KEY, args, location_ids, ids_param>>

\* The /local/pois request completes: lines 181-188.
PoisResponse ==
    /\ pc = "pois"
    /\ \E r \in GatewayOutcomes(PoisPayloads) :
        LET log == Complete(calls, r)
        IN  IF ~r.success
            THEN /\ calls' = log
                 /\ Return(r)
                 /\ UNCHANGED pois_result
            ELSE /\ pois_result' = r
                 /\ IF KeyMissing
                    THEN /\ calls' = log
                         /\ Return(LocalResult(r, ConfigError))
                    ELSE /\ calls' = Issue(log, DescriptionsPath(ids_param))
                         /\ pc' = "descriptions"
                         /\ UNCHANGED result
    /\ UNCHANGED <<BRAVE_API_KEY, args, location_ids, ids_param>>

\* The /local/descriptions request completes: lines 188-209.
DescriptionsResponse ==
    /\ pc = "descriptions"
    /\ \E r \in GatewayOutcomes(DescriptionsPayloads) :
        /\ calls' = Complete(calls, r)
        /\ Return(LocalResult(pois_result, r))
    /\ UNCHANGED <<BRAVE_API_KEY, args, locals>>

\* The caller has its result; the next invocation starts from scratch
\* (no state is shared between invocations).
NextInvocation ==
    /\ pc = "done"
    /\ pc' = "idle"
    /\ tool' = "none"
    /\ query' = <<>>
    /\ count' = 0
    /\ offset' = 0
    /\ calls' = <<>>
    /\ location_ids' = <<>>
    /\ ids_param' = ""
    /\ pois_result' = None
    /\ result' = None
    /\ UNCHANGED BRAVE_API_KEY

Next ==
    \/ brave_web_search
    \/ WebSearchResponse
    \/ brave_local_search
    \/ LocationsResponse
    \/ FallbackResponse
    \/ PoisResponse
    \/ DescriptionsResponse
    \/ NextInvocation

Spec == Init /\ [][Next]_vars

(***************************************************************************)
(* Vocabulary of the properties: what the caller and the provider observe.  *)
(***************************************************************************)
Done == pc = "done"
IsWeb == tool = "brave_web_search"
IsLocal == tool = "brave_local_search"
NumCalls == Len(calls)
Completed(i) == i <= NumCalls /\ calls[i].response # None
Succeeded(i) == Completed(i) /\ calls[i].response.success
Failed(i) == Completed(i) /\ ~calls[i].response.success

\* min(max(count,1),20) and min(max(offset,0),9), as the contract words them
EffectiveCount(c) == IF c < 1 THEN 1 ELSE IF c > 20 THEN 20 ELSE c
EffectiveOffset(o) == IF o < 0 THEN 0 ELSE IF o > 9 THEN 9 ELSE o

\* The raw lists of the provider's answers.
ProviderLocations ==
    Get(Get(calls[1].response.data, "locations", EmptyDict), "results", EmptyList).v
ProviderHits ==
    Get(Get(calls[2].response.data, "web", EmptyDict), "results", EmptyList).v
ProviderPois == Get(calls[2].response.data, "results", EmptyList).v

\* The non-empty ids of a locations list, in order, as plain strings.
RECURSIVE NonEmptyIds(_)
NonEmptyIds(locs) ==
    IF Len(locs) = 0 THEN <<>>
    ELSE LET h == Head(locs)
             rest == NonEmptyIds(Tail(locs))
         IN  IF "id" \in DOMAIN h.v /\ h.v["id"].kind = "str" /\ h.v["id"].v # ""
             THEN <<h.v["id"].v>> \o rest
             ELSE rest

\* ids=<id>&ids=<id>...
RECURSIVE IdsQuery(_)
IdsQuery(ids) ==
    IF Len(ids) = 0 THEN ""
    ELSE IF Len(ids) = 1 THEN "ids=" \o ids[1]
    ELSE "ids=" \o ids[1] \o "&" \o IdsQuery(Tail(ids))

\* Which request an entry of the log is.
IsLocationsCall(c) == c.path = LocationsPath(query, EffectiveCount(count))
IsFallbackCall(c) == c.path = WebSearchPath(query, EffectiveCount(count), 0)
IsPoisCall(c) == c.path = "/local/pois?" \o IdsQuery(NonEmptyIds(ProviderLocations))
IsDescriptionsCall(c) ==
    c.path = "/local/descriptions?" \o IdsQuery(NonEmptyIds(ProviderLocations))

\* The locations request succeeded and yielded no / at least one id.
NoIdsFound == IsLocal /\ Succeeded(1) /\ NonEmptyIds(ProviderLocations) = <<>>
IdsFound == IsLocal /\ Succeeded(1) /\ NonEmptyIds(ProviderLocations) # <<>>

(***************************************************************************)
(* C1: without a credential, every invocation of either tool returns the    *)
(* configuration error (success false) and no HTTP request is ever issued.  *)
(***************************************************************************)
C1_NoCredentialNoCalls ==
    BRAVE_API_KEY = "" =>
        /\ calls = <<>>
        /\ pc \in {"idle", "done"}
        /\ Done =>
            /\ ~result.success
            /\ result.data = None
            /\ result.error = Str("BRAVE_API_KEY environment variable not set")

C1_Witness == BRAVE_API_KEY = "" /\ Done /\ IsLocal /\ count = 5

(***************************************************************************)
(* C2: every returned result is either a failure with data null and an     *)
(* error, or a success with data and no error; nothing in between.          *)
(***************************************************************************)
C2_TripleField ==
    /\ ~Done => result = None
    /\ Done =>
        /\ ~result.success => result.data = None /\ result.error # None
        /\ result.success => result.data # None /\ result.error = None

C2_Witness ==
    /\ Done /\ IsLocal /\ NumCalls = 3 /\ Failed(3)
    /\ result.success /\ result.data.kind = "list" /\ result.error = None

(***************************************************************************)
(* C3: the count and offset written into the request paths are the inputs   *)
(* clamped to [1,20] and [0,9], for web search, for the locations request   *)
(* and for the fallback web search (offset 0); an out-of-range input never  *)
(* makes the result a failure: with a credential, a failure result always   *)
(* comes from a failed request.                                             *)
(***************************************************************************)
C3_Clamped ==
    /\ (IsWeb /\ NumCalls >= 1) =>
           calls[1].path =
               WebSearchPath(query, EffectiveCount(count), EffectiveOffset(offset))
    /\ (IsLocal /\ NumCalls >= 1) =>
           calls[1].path = LocationsPath(query, EffectiveCount(count))
    /\ (NoIdsFound /\ NumCalls >= 2) =>
           calls[2].path = WebSearchPath(query, EffectiveCount(count), 0)
    /\ (BRAVE_API_KEY # "" /\ pc # "idle") => NumCalls >= 1
    /\ (BRAVE_API_KEY # "" /\ Done /\ ~result.success) => Failed(NumCalls)

C3_Witness ==
    /\ pc = "fallback" /\ count > 20
    /\ calls[2].path = WebSearchPath(query, 20, 0)

(***************************************************************************)
(* C4: when the locations request succeeds without any non-empty id, the    *)
(* tool runs the web search with the same query and count, asks neither     *)
(* /local/pois nor /local/descriptions, and returns one {name, address,     *)
(* description} record per web hit, in order, with name the hit's title and *)
(* address "N/A"; a failed web search is returned unchanged.                *)
(***************************************************************************)
C4_Fallback ==
    NoIdsFound =>
        /\ NumCalls = 2
        /\ IsFallbackCall(calls[2])
        /\ pc \in {"fallback", "done"}
        /\ Done <=> Completed(2)
        /\ Failed(2) => result = calls[2].response
        /\ Succeeded(2) =>
            /\ result.success
            /\ result.error = None
            /\ result.data.kind = "list"
            /\ Len(result.data.v) = Len(ProviderHits)
            /\ \A i \in 1..Len(ProviderHits) :
                LET rec == result.data.v[i]
                    hit == ProviderHits[i]
                IN  /\ DOMAIN rec.v = {"name", "address", "description"}
                    /\ rec.v["name"] = Get(hit, "title", Str(""))
                    /\ rec.v["address"] = Str("N/A")
                    /\ rec.v["description"] = Get(hit, "description", Str(""))

C4_Witness ==
    /\ NoIdsFound /\ Done /\ Succeeded(2) /\ count = 5
    /\ Len(ProviderLocations) = 0
    /\ Len(result.data.v) = 2
    /\ result.data.v[1] # result.data.v[2]

(***************************************************************************)
(* C5: when ids were found and the /local/pois request fails, the tool      *)
(* returns a failure carrying exactly that request's error string, and      *)
(* /local/descriptions is never requested.                                  *)
(***************************************************************************)
C5_FailFast ==
    (IdsFound /\ Failed(2)) =>
        /\ Done
        /\ NumCalls = 2
        /\ ~result.success
        /\ result.data = None
        /\ result.error = calls[2].response.error

C5_Witness ==
    /\ IdsFound /\ Failed(2) /\ Done
    /\ result.error = Str("Client error '429 Too Many Requests'")

(***************************************************************************)
(* C6: when the locations and /local/pois requests succeed and the          *)
(* /local/descriptions request fails, the result is a success with one      *)
(* record per POI record, every description null.                           *)
(***************************************************************************)
C6_Degraded ==
    (IsLocal /\ Succeeded(1) /\ Succeeded(2) /\ Failed(3)) =>
        /\ Done
        /\ result.success
        /\ result.data.kind = "list"
        /\ Len(result.data.v) = Len(ProviderPois)
        /\ \A i \in 1..Len(result.data.v) : result.data.v[i].v["description"] = None

C6_Witness ==
    /\ IsLocal /\ Succeeded(2) /\ Failed(3) /\ Done
    /\ Len(ProviderPois) = 3
    /\ Len(result.data.v) = 3

ProviderDescriptions ==
    IF Succeeded(3) /\ "descriptions" \in DOMAIN calls[3].response.data.v
    THEN calls[3].response.data.v["descriptions"].v
    ELSE <<>>

C8_JoinAndOrder ==
    (IdsFound /\ Succeeded(2)) =>
        /\ NumCalls = 3
        /\ pc \in {"descriptions", "done"}
        /\ Done <=> Completed(3)
        /\ Done =>
            /\ result.success
            /\ result.data.kind = "list"
            /\ Len(result.data.v) = Len(ProviderPois)
            /\ \A i \in 1..Len(ProviderPois) :
                LET rec == result.data.v[i].v
                    poi == ProviderPois[i].v
                IN  /\ rec["name"] = (IF "name" \in DOMAIN poi
                                      THEN poi["name"] ELSE Str("Unknown"))
                    /\ rec["phone"] = (IF "phone" \in DOMAIN poi
                                       THEN poi["phone"] ELSE None)
                    /\ "id" \in DOMAIN poi =>
                        rec["description"] =
                            (IF poi["id"].v \in DOMAIN ProviderDescriptions
                             THEN ProviderDescriptions[poi["id"].v]
                             ELSE None)

C8_Witness ==
    /\ IdsFound /\ Done /\ Succeeded(3)
    /\ Len(ProviderPois) = 3
    /\ result.data.v[1].v["description"] = Str("about p2")
    /\ result.data.v[2].v["description"] = None
    /\ result.data.v[3].v["description"] = None
    /\ result.data.v[2].v["name"] = Str("Joe's Pizza")
    /\ result.data.v[2].v["phone"] # None
    /\ result.data.v[1].v["phone"] = None

(***************************************************************************)
(* C9: web search issues at most one request and local search at most       *)
(* three, each only after the one before has completed, as [locations],     *)
(* [locations, web search], [locations, pois] or [locations, pois,          *)
(* descriptions]; nothing is requested again after a failure, and no path   *)
(* is requested twice.                                                      *)
(***************************************************************************)
C9_CallSequence ==
    /\ IsWeb => NumCalls <= 1
    /\ IsLocal => NumCalls <= 3
    /\ \A i \in 1..NumCalls : i < NumCalls => Succeeded(i)
    /\ \A i, j \in 1..NumCalls : i # j => calls[i].path # calls[j].path
    /\ (IsLocal /\ NumCalls >= 1) => IsLocationsCall(calls[1])
    /\ (IsLocal /\ NumCalls >= 2) =>
           \/ IsFallbackCall(calls[2]) /\ NumCalls = 2
           \/ IsPoisCall(calls[2])
    /\ (IsLocal /\ NumCalls = 3) =>
           IsPoisCall(calls[2]) /\ IsDescriptionsCall(calls[3])
    /\ (Done /\ BRAVE_API_KEY # "") =>
           /\ NumCalls >= 1
           /\ Completed(NumCalls)

C9_Witness ==
    /\ Done /\ IsLocal /\ NumCalls = 3
    /\ IsLocationsCall(calls[1]) /\ IsPoisCall(calls[2]) /\ IsDescriptionsCall(calls[3])
    /\ Failed(3)

(***************************************************************************)
(* C10 (as written): the ids collected from locations.results and sent to   *)
(* /local/pois and /local/descriptions are the provider's ids in order,     *)
(* empty ones dropped and duplicates dropped.                               *)
(***************************************************************************)
C10_DuplicatesDropped ==
    (IsLocal /\ Succeeded(1)) =>
        LET ids == Dedup(NonEmptyIds(ProviderLocations))
        IN  /\ Map(StrOf, location_ids) = ids
            /\ (NumCalls >= 2 /\ Len(ids) > 0) =>
                   calls[2].path = "/local/pois?" \o IdsQuery(ids)
            /\ NumCalls >= 3 =>
                   calls[3].path = "/local/descriptions?" \o IdsQuery(ids)

(***************************************************************************)
(* C10 (amended): the ids collected and sent are the provider's ids in      *)
(* order with the empty ones dropped; a duplicate id is kept and sent as    *)
(* often as the provider listed it.  Both enrichment requests carry the     *)
(* same ids string.                                                         *)
(***************************************************************************)
C10_IdsInProviderOrder ==
    (IsLocal /\ Succeeded(1)) =>
        LET ids == NonEmptyIds(ProviderLocations)
        IN  /\ Map(StrOf, location_ids) = ids
            /\ Len(ids) > 0 =>
                   /\ NumCalls >= 2
                   /\ calls[2].path = "/local/pois?" \o IdsQuery(ids)
                   /\ ids_param = IdsQuery(ids)
            /\ NumCalls >= 3 =>
                   calls[3].path = "/local/descriptions?" \o IdsQuery(ids)

C10_Witness ==
    /\ IsLocal /\ NumCalls = 3
    /\ Len(ProviderLocations) = 2
    /\ ProviderLocations[1] = ProviderLocations[2]
    /\ calls[2].path = "/local/pois?ids=p1&ids=p1"
    /\ calls[3].path = "/local/descriptions?ids=p1&ids=p1"

====
